---- MODULE Spec2Model ----
(***************************************************************************)
(* Model of the task-queue thread pool (src/src/os_threadpool.c) and of    *)
(* the parallel graph-sum traversal that drives it (src/src/parallel.c).   *)
(* Thread 0 is the main thread, threads 1..num_threads are the workers.    *)
(* Every pthread_mutex_lock, critical-section body and unlock is a step.   *)
(***************************************************************************)
EXTENDS Integers, Sequences, FiniteSets, TLC

\* ---------------------------------------------------------------- bounds
MaxNodes == 3       \* graphs have 1..MaxNodes nodes
MaxThreads == 2     \* pools have 1..MaxThreads workers

\* ------------------------------------------------------------- constants
NOT_VISITED == "NOT_VISITED"
PROCESSING == "PROCESSING"
DONE == "DONE"
NoThread == -1      \* owner of an unlocked mutex
NULL == 0           \* no task
Main == 0

VARIABLES
    graph,         \* immutable: [num_nodes, info, neighbours]
    visited,       \* graph->visited
    sum,           \* static int sum
    num_threads,   \* tp->num_threads
    head,          \* tp->head: the task list, a sequence of task ids
    tasks_added,   \* tp->tasks_added
    mutex,         \* owner of tp->mutex
    graph_mutex,   \* owner of graph_mutex
    pc,            \* position of every thread
    t,             \* per worker: the task dequeue_task returned (NULL if none)
    new_task,      \* per thread: the task it created and is enqueueing
    i,             \* per thread: loop index (create/join loop, neighbour loop)
    task_arg,      \* task id -> node index (task ids are 1..Len(task_arg))
    enqueued,      \* history: task ids in the order list_add_tail ran
    dequeued,      \* history: task ids in the order list_del ran in dequeue_task
    ran,           \* history: task id -> number of completed action calls
    destroyed      \* history: task id -> number of destroy_task calls

vars == <<graph, visited, sum, num_threads, head, tasks_added, mutex,
          graph_mutex, pc, t, new_task, i, task_arg, enqueued, dequeued, ran, destroyed>>

Workers == 1..num_threads
Threads == 0..num_threads

\* ------------------------------------------------------------ the inputs
RECURSIVE Pow3(_)
Pow3(k) == IF k = 0 THEN 1 ELSE 3 * Pow3(k - 1)

\* neighbour lists of node k in an n-node graph, by shape
Nobody(n, k) == << >>
Chain(n, k) == IF k + 1 < n THEN <<k + 1>> ELSE << >>
Ring(n, k) == <<(k + 1) % n, (k + n - 1) % n>>
Star(n, k) == IF k = 0 THEN [j \in 1..(n - 1) |-> j] ELSE <<0>>
Loops(n, k) == <<k, (k + 1) % n, (k + 1) % n, k>>
Island(n, k) == IF k + 2 < n THEN <<k + 1>> ELSE IF k + 1 = n THEN <<0, k>> ELSE << >>
Clique(n, k) == [j \in 1..n |-> j - 1]

Shapes == {"nobody", "chain", "ring", "star", "loops", "island", "clique"}

Neighbours(s, n, k) ==
    CASE s = "nobody" -> Nobody(n, k)
      [] s = "chain" -> Chain(n, k)
      [] s = "ring" -> Ring(n, k)
      [] s = "star" -> Star(n, k)
      [] s = "loops" -> Loops(n, k)
      [] s = "island" -> Island(n, k)
      [] s = "clique" -> Clique(n, k)

WeightKinds == {"pow3", "mixed"}

Info(w, k) == IF w = "pow3" THEN Pow3(k) ELSE (k * k) - 1

Graphs ==
    { [num_nodes |-> n,
       info |-> [k \in 0..(n - 1) |-> Info(w, k)],
       neighbours |-> [k \in 0..(n - 1) |-> Neighbours(s, n, k)]] :
      n \in 1..MaxNodes, s \in Shapes, w \in WeightKinds }

\* --------------------------------------------------------------- helpers
Range(s) == {s[k] : k \in 1..Len(s)}

\* mutation: a list of one task counts as empty
queue_has_no_second == Len(head) <= 1

queue_is_empty == head = << >>

\* nodes reachable from node 0
RECURSIVE ReachFrom(_, _)
ReachFrom(g, S) ==
    LET S2 == S \cup UNION {Range(g.neighbours[k]) : k \in S}
    IN IF S2 = S THEN S ELSE ReachFrom(g, S2)

Reachable == ReachFrom(graph, {0})

RECURSIVE SumOver(_, _)
SumOver(f, S) ==
    IF S = {} THEN 0
    ELSE LET k == CHOOSE x \in S : TRUE IN f[k] + SumOver(f, S \ {k})

\* ------------------------------------------------------------------ Init
Init ==
    /\ graph \in Graphs
    /\ visited = [k \in 0..(graph.num_nodes - 1) |-> NOT_VISITED]
    /\ sum = 0
    /\ num_threads \in 1..MaxThreads
    /\ head = << >>
    /\ tasks_added = 0
    /\ mutex = NoThread
    /\ graph_mutex = NoThread
    /\ pc = [th \in 0..num_threads |-> IF th = Main THEN "create" ELSE "unborn"]
    /\ t = [th \in 0..num_threads |-> NULL]
    /\ new_task = [th \in 0..num_threads |-> NULL]
    /\ i = [th \in 0..num_threads |-> 0]
    /\ task_arg = << >>
    /\ enqueued = << >>
    /\ dequeued = << >>
    /\ ran = << >>
    /\ destroyed = << >>

\* ------------------------------------------------- os_threadpool.c: tasks
\* create_task: a fresh task carrying node index idx, held by thread th
create_task(th, idx) ==
    /\ task_arg' = Append(task_arg, idx)
    /\ ran' = Append(ran, 0)
    /\ destroyed' = Append(destroyed, 0)
    /\ new_task' = [new_task EXCEPT ![th] = Len(task_arg) + 1]

\* mutation: the task is put at the front of the list
list_add_head(q, x) == <<x>> \o q

list_add_tail(q, x) == Append(q, x)

\* pthread_cond_signal: wakes one waiter if there is one
cond_signal(p) ==
    IF \E w \in Workers : p[w] = "dq_wait"
    THEN {[p EXCEPT ![w] = "dq_relock"] : w \in {x \in Workers : p[x] = "dq_wait"}}
    ELSE {p}

\* mutation: the broadcast wakes nobody
cond_broadcast_nobody(p) == p

\* pthread_cond_broadcast: wakes every waiter
cond_broadcast(p) ==
    [th \in DOMAIN p |-> IF p[th] = "dq_wait" THEN "dq_relock" ELSE p[th]]

\* where enqueue_task returns to: process_node in main, the loop of execute in a worker
enqueue_return(th) == IF th = Main THEN "pn_unlock" ELSE "ex_loop"

\* ---------------------------------------------------------- enqueue_task
\* mutation: the counter is set instead of incremented
atomic_store_one(n) == 1

\* atomic_fetch_add(&tp->tasks_added, 1)
atomic_fetch_add(n) == n + 1

enqueue_task_lock(th) ==
    /\ pc[th] = "enq_lock"
    /\ mutex = NoThread
    /\ mutex' = th
    /\ pc' = [pc EXCEPT ![th] = "enq_body"]
    /\ UNCHANGED <<graph, visited, sum, num_threads, head, tasks_added, graph_mutex,
                   t, new_task, i, task_arg, enqueued, dequeued, ran, destroyed>>

enqueue_task_body(th) ==
    /\ pc[th] = "enq_body"
    /\ head' = list_add_tail(head, new_task[th])
    /\ enqueued' = Append(enqueued, new_task[th])
    /\ tasks_added' = atomic_fetch_add(tasks_added)
    /\ pc' \in cond_signal([pc EXCEPT ![th] = "enq_unlock"])
    /\ UNCHANGED <<graph, visited, sum, num_threads, mutex, graph_mutex,
                   t, new_task, i, task_arg, dequeued, ran, destroyed>>

enqueue_task_unlock(th) ==
    /\ pc[th] = "enq_unlock"
    /\ mutex' = NoThread
    /\ pc' = [pc EXCEPT ![th] = enqueue_return(th)]
    /\ new_task' = [new_task EXCEPT ![th] = NULL]
    /\ UNCHANGED <<graph, visited, sum, num_threads, head, tasks_added, graph_mutex,
                   t, i, task_arg, enqueued, dequeued, ran, destroyed>>

\* ---------------------------------------------------------- dequeue_task
\* mutation: wait whenever the list is empty
must_wait_while_empty == queue_is_empty

\* the condition of the while loop around pthread_cond_wait
must_wait == queue_is_empty /\ tasks_added = 0

dequeue_task_lock(w) ==
    /\ pc[w] = "dq_lock"
    /\ mutex = NoThread
    /\ mutex' = w
    /\ pc' = [pc EXCEPT ![w] = "dq_check"]
    /\ t' = [t EXCEPT ![w] = NULL]
    /\ UNCHANGED <<graph, visited, sum, num_threads, head, tasks_added, graph_mutex,
                   new_task, i, task_arg, enqueued, dequeued, ran, destroyed>>

\* pthread_cond_wait: release the mutex and sleep
dequeue_task_wait(w) ==
    /\ pc[w] = "dq_check"
    /\ must_wait
    /\ mutex' = NoThread
    /\ pc' = [pc EXCEPT ![w] = "dq_wait"]
    /\ UNCHANGED <<graph, visited, sum, num_threads, head, tasks_added, graph_mutex,
                   t, new_task, i, task_arg, enqueued, dequeued, ran, destroyed>>

\* pthread_cond_wait may return without a signal or broadcast
spurious_wakeup(w) ==
    /\ pc[w] = "dq_wait"
    /\ pc' = [pc EXCEPT ![w] = "dq_relock"]
    /\ UNCHANGED <<graph, visited, sum, num_threads, head, tasks_added, mutex,
                   graph_mutex, t, new_task, i, task_arg, enqueued, dequeued,
                   ran, destroyed>>

\* pthread_cond_wait returns with the mutex held; the while condition is re-tested
cond_wait_return(w) ==
    /\ pc[w] = "dq_relock"
    /\ mutex = NoThread
    /\ mutex' = w
    /\ pc' = [pc EXCEPT ![w] = "dq_check"]
    /\ UNCHANGED <<graph, visited, sum, num_threads, head, tasks_added, graph_mutex,
                   t, new_task, i, task_arg, enqueued, dequeued, ran, destroyed>>

\* mutation: the whole list is unlinked with the task
list_del_all(q) == << >>

\* mutation: the task is left in the list
list_del_nothing(q) == q

\* the task dequeue_task picks from a non-empty list, and the list it leaves
list_first(q) == Head(q)
list_del_first(q) == Tail(q)

dequeue_task_take(w) ==
    /\ pc[w] = "dq_check"
    /\ ~must_wait
    /\ IF ~queue_is_empty
       THEN /\ t' = [t EXCEPT ![w] = list_first(head)]
            /\ head' = list_del_first(head)
            /\ dequeued' = Append(dequeued, list_first(head))
       ELSE UNCHANGED <<t, head, dequeued>>
    /\ pc' = [pc EXCEPT ![w] = "dq_unlock"]
    /\ UNCHANGED <<graph, visited, sum, num_threads, tasks_added, mutex, graph_mutex,
                   new_task, i, task_arg, enqueued, ran, destroyed>>

\* mutation: dequeue_task returns without unlocking
dequeue_task_still_locked(w) == w

\* the owner of tp->mutex once dequeue_task has run pthread_mutex_unlock
dequeue_task_released(w) == NoThread

dequeue_task_unlock(w) ==
    /\ pc[w] = "dq_unlock"
    /\ mutex' = dequeue_task_released(w)
    /\ pc' = [pc EXCEPT ![w] = "loop"]
    /\ UNCHANGED <<graph, visited, sum, num_threads, head, tasks_added, graph_mutex,
                   t, new_task, i, task_arg, enqueued, dequeued, ran, destroyed>>

\* -------------------------------------------------- thread_loop_function
\* if (t == NULL) break;
thread_loop_break(w) ==
    /\ pc[w] = "loop"
    /\ t[w] = NULL
    /\ pc' = [pc EXCEPT ![w] = "TERMINATED"]
    /\ UNCHANGED <<graph, visited, sum, num_threads, head, tasks_added, mutex,
                   graph_mutex, t, new_task, i, task_arg, enqueued, dequeued,
                   ran, destroyed>>

\* t->action(t->argument): enter execute
thread_loop_action(w) ==
    /\ pc[w] = "loop"
    /\ t[w] # NULL
    /\ pc' = [pc EXCEPT ![w] = "ex_lock"]
    /\ UNCHANGED <<graph, visited, sum, num_threads, head, tasks_added, mutex,
                   graph_mutex, t, new_task, i, task_arg, enqueued, dequeued,
                   ran, destroyed>>

\* destroy_task(t), then back to the top of the loop
destroy_task(w) ==
    /\ pc[w] = "destroy_task"
    /\ destroyed' = [destroyed EXCEPT ![t[w]] = @ + 1]
    /\ t' = [t EXCEPT ![w] = NULL]
    /\ pc' = [pc EXCEPT ![w] = "dq_lock"]
    /\ UNCHANGED <<graph, visited, sum, num_threads, head, tasks_added, mutex,
                   graph_mutex, new_task, i, task_arg, enqueued, dequeued, ran>>

\* ----------------------------------------------------- parallel.c: execute
idx(w) == task_arg[t[w]]

\* mutation: execute goes on without taking graph_mutex
execute_not_locked(w) == graph_mutex

\* the owner of graph_mutex once execute has run pthread_mutex_lock
execute_locked(w) == w

execute_lock(w) ==
    /\ pc[w] = "ex_lock"
    /\ graph_mutex = NoThread
    /\ graph_mutex' = execute_locked(w)
    /\ pc' = [pc EXCEPT ![w] = "ex_check"]
    /\ UNCHANGED <<graph, visited, sum, num_threads, head, tasks_added, mutex,
                   t, new_task, i, task_arg, enqueued, dequeued, ran, destroyed>>

\* mutation: the guard tests for NOT_VISITED
may_process_unvisited(k) == visited[k] = NOT_VISITED

\* if (graph->visited[idx] == PROCESSING) { sum += node->info; visited[idx] = DONE; ...
may_process(k) == visited[k] = PROCESSING

\* mutation: sum = node->info
set_info(s, k) == graph.info[k]

\* mutation: sum += idx
add_index(s, k) == s + k

add_info(s, k) == s + graph.info[k]

execute_check(w) ==
    /\ pc[w] = "ex_check"
    /\ IF may_process(idx(w))
       THEN /\ sum' = add_info(sum, idx(w))
            /\ visited' = [visited EXCEPT ![idx(w)] = DONE]
            /\ i' = [i EXCEPT ![w] = 0]
            /\ pc' = [pc EXCEPT ![w] = "ex_loop"]
       ELSE /\ pc' = [pc EXCEPT ![w] = "ex_unlock"]
            /\ UNCHANGED <<sum, visited, i>>
    /\ UNCHANGED <<graph, num_threads, head, tasks_added, mutex, graph_mutex,
                   t, new_task, task_arg, enqueued, dequeued, ran, destroyed>>

\* mutation: claim every neighbour that is not being processed
must_claim_unless_processing(k) == visited[k] # PROCESSING

\* mutation: claim every neighbour that is not done
must_claim_unless_done(k) == visited[k] # DONE

\* if (graph->visited[node->neighbours[i]] == NOT_VISITED)
must_claim(k) == visited[k] = NOT_VISITED

\* mutation: the neighbour index is taken one too high
neighbour_off_by_one(k, j) == (graph.neighbours[k][j + 1] + 1) % graph.num_nodes

\* node->neighbours[i]
neighbour(k, j) == graph.neighbours[k][j + 1]

\* one iteration of the for loop over node->neighbours, or its exit
execute_loop(w) ==
    /\ pc[w] = "ex_loop"
    /\ LET nbs == graph.neighbours[idx(w)] IN
       IF i[w] < Len(nbs)
       THEN LET nb == neighbour(idx(w), i[w]) IN
            /\ i' = [i EXCEPT ![w] = @ + 1]
            /\ IF must_claim(nb)
               THEN /\ visited' = [visited EXCEPT ![nb] = PROCESSING]
                    /\ create_task(w, nb)
                    /\ pc' = [pc EXCEPT ![w] = "enq_lock"]
               ELSE UNCHANGED <<visited, task_arg, ran, destroyed, new_task, pc>>
       ELSE /\ pc' = [pc EXCEPT ![w] = "ex_unlock"]
            /\ i' = [i EXCEPT ![w] = 0]
            /\ UNCHANGED <<visited, task_arg, ran, destroyed, new_task>>
    /\ UNCHANGED <<graph, sum, num_threads, head, tasks_added, mutex, graph_mutex,
                   t, enqueued, dequeued>>

\* pthread_mutex_unlock(&graph_mutex); the action returns to thread_loop_function
execute_unlock(w) ==
    /\ pc[w] = "ex_unlock"
    /\ graph_mutex' = NoThread
    /\ ran' = [ran EXCEPT ![t[w]] = @ + 1]
    /\ pc' = [pc EXCEPT ![w] = "destroy_task"]
    /\ UNCHANGED <<graph, visited, sum, num_threads, head, tasks_added, mutex,
                   t, new_task, i, task_arg, enqueued, dequeued, destroyed>>

\* ------------------------------------------------ parallel.c: process_node
process_node_lock ==
    /\ pc[Main] = "pn_lock"
    /\ graph_mutex = NoThread
    /\ graph_mutex' = Main
    /\ pc' = [pc EXCEPT ![Main] = "pn_body"]
    /\ UNCHANGED <<graph, visited, sum, num_threads, head, tasks_added, mutex,
                   t, new_task, i, task_arg, enqueued, dequeued, ran, destroyed>>

\* graph->visited[idx] = PROCESSING; task = create_task(...), for idx = 0
process_node_body ==
    /\ pc[Main] = "pn_body"
    /\ visited' = [visited EXCEPT ![0] = PROCESSING]
    /\ create_task(Main, 0)
    /\ pc' = [pc EXCEPT ![Main] = "enq_lock"]
    /\ UNCHANGED <<graph, sum, num_threads, head, tasks_added, mutex, graph_mutex,
                   t, i, enqueued, dequeued>>

process_node_unlock ==
    /\ pc[Main] = "pn_unlock"
    /\ graph_mutex' = NoThread
    /\ pc' = [pc EXCEPT ![Main] = "wfc_lock"]
    /\ UNCHANGED <<graph, visited, sum, num_threads, head, tasks_added, mutex,
                   t, new_task, i, task_arg, enqueued, dequeued, ran, destroyed>>

\* ------------------------------------------------------ create_threadpool
\* one pthread_create of the loop; the new thread starts in thread_loop_function
create_threadpool ==
    /\ pc[Main] = "create"
    /\ i[Main] < num_threads
    /\ pc' = [pc EXCEPT ![i[Main] + 1] = "dq_lock",
                        ![Main] = IF i[Main] + 1 = num_threads THEN "pn_lock" ELSE "create"]
    /\ i' = [i EXCEPT ![Main] = IF i[Main] + 1 = num_threads THEN 0 ELSE @ + 1]
    /\ UNCHANGED <<graph, visited, sum, num_threads, head, tasks_added, mutex,
                   graph_mutex, t, new_task, task_arg, enqueued, dequeued, ran,
                   destroyed>>

\* ---------------------------------------------------- wait_for_completion
wait_for_completion_lock ==
    /\ pc[Main] = "wfc_lock"
    /\ mutex = NoThread
    /\ mutex' = Main
    /\ pc' = [pc EXCEPT ![Main] = "wfc_broadcast"]
    /\ UNCHANGED <<graph, visited, sum, num_threads, head, tasks_added, graph_mutex,
                   t, new_task, i, task_arg, enqueued, dequeued, ran, destroyed>>

wait_for_completion_broadcast ==
    /\ pc[Main] = "wfc_broadcast"
    /\ pc' = cond_broadcast([pc EXCEPT ![Main] = "wfc_unlock"])
    /\ UNCHANGED <<graph, visited, sum, num_threads, head, tasks_added, mutex,
                   graph_mutex, t, new_task, i, task_arg, enqueued, dequeued,
                   ran, destroyed>>

wait_for_completion_unlock ==
    /\ pc[Main] = "wfc_unlock"
    /\ mutex' = NoThread
    /\ pc' = [pc EXCEPT ![Main] = "join"]
    /\ UNCHANGED <<graph, visited, sum, num_threads, head, tasks_added, graph_mutex,
                   t, new_task, i, task_arg, enqueued, dequeued, ran, destroyed>>

\* pthread_join(tp->threads[i], NULL): returns once that worker has terminated
wait_for_completion_join ==
    /\ pc[Main] = "join"
    /\ i[Main] < num_threads
    /\ pc[i[Main] + 1] = "TERMINATED"
    /\ pc' = [pc EXCEPT ![Main] = IF i[Main] + 1 = num_threads THEN "destroy" ELSE "join"]
    /\ i' = [i EXCEPT ![Main] = IF i[Main] + 1 = num_threads THEN 0 ELSE @ + 1]
    /\ UNCHANGED <<graph, visited, sum, num_threads, head, tasks_added, mutex,
                   graph_mutex, t, new_task, task_arg, enqueued, dequeued, ran,
                   destroyed>>

\* ----------------------------------------------------- destroy_threadpool
\* destroy_task on every task still in the list
drain(d, q) == [k \in DOMAIN d |-> IF k \in Range(q) THEN d[k] + 1 ELSE d[k]]

destroy_threadpool ==
    /\ pc[Main] = "destroy"
    /\ destroyed' = drain(destroyed, head)
    /\ head' = << >>
    /\ pc' = [pc EXCEPT ![Main] = "print"]
    /\ UNCHANGED <<graph, visited, sum, num_threads, tasks_added, mutex, graph_mutex,
                   t, new_task, i, task_arg, enqueued, dequeued, ran>>

\* ---------------------------------------------------- parallel.c: main
\* pthread_mutex_destroy(&graph_mutex); printf("%d", sum); return 0;
main_print ==
    /\ pc[Main] = "print"
    /\ pc' = [pc EXCEPT ![Main] = "done"]
    /\ UNCHANGED <<graph, visited, sum, num_threads, head, tasks_added, mutex,
                   graph_mutex, t, new_task, i, task_arg, enqueued, dequeued,
                   ran, destroyed>>

\* ------------------------------------------------------------------ Next
MainStep ==
    \/ create_threadpool
    \/ process_node_lock
    \/ process_node_body
    \/ process_node_unlock
    \/ wait_for_completion_lock
    \/ wait_for_completion_broadcast
    \/ wait_for_completion_unlock
    \/ wait_for_completion_join
    \/ destroy_threadpool
    \/ main_print

EnqueueStep(th) ==
    \/ enqueue_task_lock(th)
    \/ enqueue_task_body(th)
    \/ enqueue_task_unlock(th)

WorkerStep(w) ==
    \/ dequeue_task_lock(w)
    \/ dequeue_task_wait(w)
    \/ cond_wait_return(w)
    \/ dequeue_task_take(w)
    \/ dequeue_task_unlock(w)
    \/ thread_loop_break(w)
    \/ thread_loop_action(w)
    \/ execute_lock(w)
    \/ execute_check(w)
    \/ execute_loop(w)
    \/ execute_unlock(w)
    \/ destroy_task(w)

Next ==
    \/ create_threadpool
    \/ process_node_lock
    \/ process_node_body
    \/ process_node_unlock
    \/ wait_for_completion_lock
    \/ wait_for_completion_broadcast
    \/ wait_for_completion_unlock
    \/ wait_for_completion_join
    \/ destroy_threadpool
    \/ main_print
    \/ \E th \in Threads : enqueue_task_lock(th)
    \/ \E th \in Threads : enqueue_task_body(th)
    \/ \E th \in Threads : enqueue_task_unlock(th)
    \/ \E w \in Workers : dequeue_task_lock(w)
    \/ \E w \in Workers : dequeue_task_wait(w)
    \/ \E w \in Workers : spurious_wakeup(w)
    \/ \E w \in Workers : cond_wait_return(w)
    \/ \E w \in Workers : dequeue_task_take(w)
    \/ \E w \in Workers : dequeue_task_unlock(w)
    \/ \E w \in Workers : thread_loop_break(w)
    \/ \E w \in Workers : thread_loop_action(w)
    \/ \E w \in Workers : execute_lock(w)
    \/ \E w \in Workers : execute_check(w)
    \/ \E w \in Workers : execute_loop(w)
    \/ \E w \in Workers : execute_unlock(w)
    \/ \E w \in Workers : destroy_task(w)

\* the steps of one thread (a spurious wakeup is not a step of the thread)
ThreadStep(th) ==
    \/ th = Main /\ MainStep
    \/ th \in Workers /\ WorkerStep(th)
    \/ th \in Threads /\ EnqueueStep(th)

Spec == Init /\ [][Next]_vars

\* every thread that can take a step eventually takes one, and
\* pthread_cond_wait returns without cause only finitely often
NoSpuriousWakeup == ~ \E w \in Workers : spurious_wakeup(w)

FairSpec ==
    /\ Spec
    /\ \A th \in 0..MaxThreads : WF_vars(ThreadStep(th))
    /\ <>[][NoSpuriousWakeup]_vars

\* a driver that calls wait_for_completion on a pool it never gave a task
wait_for_completion_no_task ==
    /\ pc[Main] = "pn_lock"
    /\ pc' = [pc EXCEPT ![Main] = "wfc_lock"]
    /\ UNCHANGED <<graph, visited, sum, num_threads, head, tasks_added, mutex,
                   graph_mutex, t, new_task, i, task_arg, enqueued, dequeued,
                   ran, destroyed>>

AnyDriverNext == Next \/ wait_for_completion_no_task

AnyDriverSpec ==
    /\ Init
    /\ [][AnyDriverNext]_vars
    /\ \A th \in 0..MaxThreads :
          WF_vars(ThreadStep(th) \/ (th = Main /\ wait_for_completion_no_task))
    /\ <>[][NoSpuriousWakeup]_vars

\* ------------------------------------------- pthread_create reporting failure
EAGAIN == 11

\* DIE(rc < 0, "pthread_create")
DIE_pthread_create(rc) == rc < 0

\* one pthread_create of the loop returns EAGAIN: no thread is started
create_threadpool_fails ==
    /\ pc[Main] = "create"
    /\ i[Main] < num_threads
    /\ IF DIE_pthread_create(EAGAIN)
       THEN /\ pc' = [pc EXCEPT ![Main] = "aborted"]
            /\ i' = i
       ELSE /\ pc' = [pc EXCEPT ![i[Main] + 1] = "not_created",
                                ![Main] = IF i[Main] + 1 = num_threads
                                          THEN "pn_lock" ELSE "create"]
            /\ i' = [i EXCEPT ![Main] = IF i[Main] + 1 = num_threads THEN 0 ELSE @ + 1]
    /\ UNCHANGED <<graph, visited, sum, num_threads, head, tasks_added, mutex,
                   graph_mutex, t, new_task, task_arg, enqueued, dequeued, ran,
                   destroyed>>

\* pthread_join on a pthread_t that pthread_create never set: it may return at
\* once, crash the process, or never return (no step)
wait_for_completion_join_unset ==
    /\ pc[Main] = "join"
    /\ i[Main] < num_threads
    /\ pc[i[Main] + 1] = "not_created"
    /\ \/ /\ pc' = [pc EXCEPT ![Main] = IF i[Main] + 1 = num_threads
                                         THEN "destroy" ELSE "join"]
          /\ i' = [i EXCEPT ![Main] = IF i[Main] + 1 = num_threads THEN 0 ELSE @ + 1]
       \/ /\ pc' = [pc EXCEPT ![Main] = "crashed"]
          /\ i' = i
    /\ UNCHANGED <<graph, visited, sum, num_threads, head, tasks_added, mutex,
                   graph_mutex, t, new_task, task_arg, enqueued, dequeued, ran,
                   destroyed>>

CreateFailNext == Next \/ create_threadpool_fails \/ wait_for_completion_join_unset

CreateFailSpec == Init /\ [][CreateFailNext]_vars

\* ---------------------------------------------------------------- claims
Returned == pc[Main] \in {"destroy", "print", "done"}
AllTerminated == \A w \in Workers : pc[w] = "TERMINATED"
NoDuplicates(q) == \A a, b \in 1..Len(q) : a # b => q[a] # q[b]
TaskIds == 1..Len(task_arg)

\* C1: once wait_for_completion has returned, sum is the sum of the weights
\* of exactly the nodes reachable from node 0, each counted once.
C1_SumOfReachable ==
    Returned => sum = SumOver(graph.info, Reachable)

C1_Witness ==
    /\ Returned
    /\ num_threads > 1
    /\ Cardinality(Reachable) > 1
    /\ Cardinality(Reachable) < graph.num_nodes
    /\ sum = SumOver(graph.info, Reachable)

\* C2: in the driver sequence of main, under weak fairness of every thread,
\* every worker eventually terminates and wait_for_completion returns.
C2_Termination == <>(Returned /\ AllTerminated)

C2_Witness ==
    /\ Returned
    /\ AllTerminated
    /\ num_threads > 1
    /\ Len(dequeued) > 1

\* C3: the status of a node only moves NOT_VISITED -> PROCESSING -> DONE,
\* one stage at a time, never backwards.
C3_StatusForward ==
    [][\A k \in DOMAIN visited :
          \/ visited'[k] = visited[k]
          \/ visited[k] = NOT_VISITED /\ visited'[k] = PROCESSING
          \/ visited[k] = PROCESSING /\ visited'[k] = DONE]_vars

C3_Witness ==
    /\ \E k \in DOMAIN visited : visited[k] = DONE /\ k \in Range(graph.neighbours[k])
    /\ \E k \in DOMAIN visited : visited[k] = PROCESSING
    /\ \E w \in Workers : pc[w] = "ex_loop" /\ i[w] > 0

\* C4: at most one task is ever created and enqueued for a node index.
C4_NoDoubleEnqueue ==
    /\ NoDuplicates(task_arg)
    /\ NoDuplicates(enqueued)

C4_Witness ==
    /\ Returned
    /\ Len(enqueued) > 1
    /\ \E k \in Reachable :
          \E a, b \in 1..Len(graph.neighbours[k]) :
             a # b /\ graph.neighbours[k][a] = graph.neighbours[k][b]
    /\ \E k \in Reachable : k \in Range(graph.neighbours[k])

\* C5: no task is enqueued after some worker has received NULL from
\* dequeue_task.
GotNull(w) == pc[w] = "TERMINATED" \/ (pc[w] = "loop" /\ t[w] = NULL)

C5_NullMeansComplete ==
    [][(\E w \in Workers : GotNull(w)) => enqueued' = enqueued]_vars

\* C6: the sequence of dequeued tasks is always a prefix of the sequence of
\* enqueued tasks.
C6_Fifo ==
    /\ Len(dequeued) <= Len(enqueued)
    /\ \A k \in 1..Len(dequeued) : dequeued[k] = enqueued[k]

C6_Witness ==
    /\ num_threads > 1
    /\ Len(dequeued) > 1
    /\ \E w \in Workers : pc[w] = "dq_unlock" /\ t[w] # NULL /\ head # << >>

\* C7: no thread requests the graph lock while holding the queue lock, no
\* action runs with the queue lock held, and no threads wait on each other's
\* locks in a cycle.
WantsMutex(th) == pc[th] \in {"enq_lock", "dq_lock", "dq_relock", "wfc_lock"}
WantsGraphMutex(th) == pc[th] \in {"ex_lock", "pn_lock"}
InAction(th) == pc[th] \in {"ex_lock", "ex_check", "ex_loop", "ex_unlock"}

C7_LockOrder ==
    /\ \A th \in Threads : WantsGraphMutex(th) => mutex # th
    /\ \A th \in Threads : InAction(th) => mutex # th
    /\ \A th \in Threads : WantsMutex(th) => mutex # th
    /\ \A th \in Threads : WantsGraphMutex(th) => graph_mutex # th
    /\ ~ \E a, b \in Threads :
            /\ WantsMutex(a) /\ mutex = b
            /\ WantsGraphMutex(b) /\ graph_mutex = a

C7_Witness ==
    \E a, b \in Workers :
        /\ a # b
        /\ graph_mutex = a /\ mutex = a
        /\ WantsGraphMutex(b)

\* C8: every task is dequeued by one worker, run once, destroyed once and only
\* after its action completed, never re-enqueued; once destroy_threadpool has
\* run, as many tasks have been destroyed as were created.
C8_TaskLifecycle ==
    /\ NoDuplicates(enqueued)
    /\ NoDuplicates(dequeued)
    /\ \A a, b \in Workers : (a # b /\ t[a] # NULL) => t[a] # t[b]
    /\ \A k \in TaskIds : ran[k] <= 1 /\ destroyed[k] <= ran[k]
    /\ pc[Main] = "done" =>
          \A k \in TaskIds : k \in Range(dequeued) /\ ran[k] = 1 /\ destroyed[k] = 1

C8_Witness ==
    /\ pc[Main] = "done"
    /\ Len(task_arg) > 1
    /\ \A k \in TaskIds : destroyed[k] = 1

C10_BroadcastReleases ==
    \A w \in 1..MaxThreads :
        (pc[Main] = "wfc_unlock" /\ w \in Workers /\ pc[w] = "dq_relock")
            ~> (w \in Workers /\ pc[w] = "TERMINATED")

\* C11: when a pthread_create reports failure the process aborts and never
\* goes on with a partially created pool.
C11_CreateFailureIsFatal ==
    (\E w \in Workers : pc[w] = "not_created") => pc[Main] = "aborted"

\* C12: under fairness every enqueued task is eventually run, even after other
\* workers have terminated, and every reachable node eventually is DONE.
\* (again and again all tasks enqueued so far have been run, so each enqueued
\* task is run at some later point)
C12_EveryTaskRuns ==
    []<>(/\ \A n \in 1..Len(enqueued) : ran[enqueued[n]] = 1
         /\ \A k \in Reachable : visited[k] = DONE)

C12_Witness ==
    \E a, b \in Workers :
        /\ pc[a] = "TERMINATED"
        /\ pc[b] = "destroy_task"
        /\ Len(dequeued) > 1
        /\ ran[dequeued[Len(dequeued)]] = 1

\* C13: when wait_for_completion returns, the list is empty and no node is
\* left PROCESSING, so the drain loop of destroy_threadpool destroys nothing.
C13_NothingLeft ==
    /\ Returned => \A k \in DOMAIN visited : visited[k] # PROCESSING
    /\ pc[Main] = "destroy" => head = << >> /\ drain(destroyed, head) = destroyed
    /\ Returned => head = << >>

C13_Witness ==
    /\ pc[Main] = "destroy"
    /\ num_threads > 1
    /\ Len(enqueued) > 1
    /\ head = << >>

\* C14: whenever graph_mutex is free, the PROCESSING nodes are exactly the node
\* indices of the tasks in the list or held by a worker that has not run them
\* yet, each index carried by one such task.
NotYetRun(w) == pc[w] \in {"dq_unlock", "loop", "ex_lock"} /\ t[w] # NULL
Holders(id) == {w \in Workers : NotYetRun(w) /\ t[w] = id}
Positions(id) == {n \in 1..Len(head) : head[n] = id}
Pending == {id \in TaskIds : Positions(id) # {} \/ Holders(id) # {}}

C14_Frontier ==
    graph_mutex = NoThread =>
        /\ {k \in DOMAIN visited : visited[k] = PROCESSING} = {task_arg[id] : id \in Pending}
        /\ \A id \in Pending : Cardinality(Positions(id)) + Cardinality(Holders(id)) = 1
        /\ \A a, b \in Pending : a # b => task_arg[a] # task_arg[b]

C14_Witness ==
    /\ graph_mutex = NoThread
    /\ head # << >>
    /\ \E w \in Workers : NotYetRun(w)
    /\ Cardinality(Pending) > 1

\* C15 as stated: every thread that reads or writes visited or sum holds
\* graph_mutex, and every thread that touches the task list while workers are
\* running holds tp->mutex.
AccessesGraphState(th) == pc[th] \in {"pn_body", "ex_check", "ex_loop", "print"}
AccessesList(th) == pc[th] \in {"enq_body", "dq_check", "destroy"}
WorkersRunning == \E w \in Workers : pc[w] # "TERMINATED"

C15_AlwaysUnderLock ==
    \A th \in Threads :
        /\ AccessesGraphState(th) => graph_mutex = th
        /\ (AccessesList(th) /\ WorkersRunning) => mutex = th

\* C15 amended: while workers are running, every access to visited or sum is
\* made under graph_mutex and every access to the task list under tp->mutex;
\* the one access without a lock is main's read of sum for printf, made after
\* every worker has terminated.
C15_UnderLockWhileRunning ==
    /\ \A th \in Threads :
          /\ (AccessesGraphState(th) /\ WorkersRunning) => graph_mutex = th
          /\ (AccessesList(th) /\ WorkersRunning) => mutex = th
          /\ (AccessesGraphState(th) /\ graph_mutex # th) => (th = Main /\ pc[th] = "print")
    /\ pc[Main] = "print" => ~WorkersRunning

C15_Witness ==
    \E a, b \in Workers :
        /\ pc[a] = "ex_loop" /\ graph_mutex = a
        /\ pc[b] = "dq_check" /\ mutex = b

\* C16: tasks_added starts at zero, grows by exactly one on every enqueue_task
\* and on no other step, and always equals the number of enqueues made.
EnqueueMade == \E th \in Threads : pc[th] = "enq_body" /\ pc'[th] = "enq_unlock"

C16_CounterCountsEnqueues ==
    /\ tasks_added = 0
    /\ [](tasks_added = Len(enqueued))
    /\ [][IF EnqueueMade THEN tasks_added' = tasks_added + 1
                         ELSE tasks_added' = tasks_added]_vars

C16_Witness ==
    /\ pc[Main] = "done"
    /\ tasks_added > 1
    /\ tasks_added = Len(dequeued)

\* C17: whenever the task list is non-empty, some worker has not terminated
\* and will call dequeue_task again.
WillDequeue(w) ==
    /\ pc[w] # "TERMINATED"
    /\ ~(pc[w] \in {"dq_unlock", "loop"} /\ t[w] = NULL)

C17_QueuedTaskHasWorker ==
    head # << >> => \E w \in Workers : WillDequeue(w)

C17_Witness ==
    /\ head # << >>
    /\ \E w \in Workers : pc[w] = "TERMINATED"
    /\ Cardinality({w \in Workers : WillDequeue(w)}) = 1

\* C18: whenever graph_mutex is free, sum is the sum of the weights of exactly
\* the DONE nodes.
DoneNodes == {k \in DOMAIN visited : visited[k] = DONE}

C18_SumOfDone ==
    graph_mutex = NoThread => sum = SumOver(graph.info, DoneNodes)

C18_Witness ==
    /\ graph_mutex = NoThread
    /\ DoneNodes # {}
    /\ \E k \in DOMAIN visited : visited[k] = PROCESSING
    /\ \E w \in Workers : pc[w] = "ex_lock"
    /\ sum # 0

\* C19: every call of execute finds its node PROCESSING when it has taken
\* graph_mutex, and as many tasks have been run as nodes are DONE.
RanTasks == {id \in TaskIds : ran[id] > 0}

C19_GuardNeverFalse ==
    /\ \A w \in Workers : pc[w] = "ex_check" => visited[idx(w)] = PROCESSING
    /\ \A w \in Workers : pc[w] = "ex_unlock" => visited[idx(w)] = DONE
    /\ graph_mutex = NoThread =>
          /\ Cardinality(RanTasks) = Cardinality(DoneNodes)
          /\ \A id \in RanTasks : ran[id] = 1

C19_Witness ==
    /\ \E w \in Workers : pc[w] = "ex_check" /\ idx(w) # 0
    /\ \E k \in Reachable : k \in Range(graph.neighbours[k])
    /\ RanTasks # {}

\* C20: nodes that are not reachable from node 0 stay NOT_VISITED, get no task
\* and add nothing to sum; the adjacency lists and weights never change.
C20_UnreachableUntouched ==
    /\ [](\A k \in DOMAIN visited \ Reachable :
             /\ visited[k] = NOT_VISITED
             /\ k \notin Range(task_arg))
    /\ [](graph_mutex = NoThread => sum = SumOver(graph.info, DoneNodes \cap Reachable))
    /\ [][graph' = graph]_vars

C20_Witness ==
    /\ pc[Main] = "done"
    /\ Cardinality(Reachable) > 1
    /\ \E k \in DOMAIN visited \ Reachable :
          /\ graph.neighbours[k] # << >>
          /\ graph.info[k] # 0
          /\ visited[k] = NOT_VISITED
====
